---- MODULE Spec2Model ----
(***************************************************************************)
(* The NYC-taxi ETL pipeline of Scripts_ETL: extract.py (extract_data),    *)
(* transform.py (DataTransformer, transform_data) and load.py              *)
(* (create_star_schema, load_to_dw), as a state machine.                   *)
(*                                                                         *)
(* Units.  Floats are modelled as exact decimals: a distance is a number   *)
(* of thousandths of a mile, an amount a number of cents, a speed a number *)
(* of hundredths of a mile per hour (the code rounds it to 2 decimals).    *)
(* A timestamp is a pair (s, n): s whole seconds since 1970-01-01 00:00    *)
(* and n nanoseconds within the second, as pandas' datetime64[ns] holds    *)
(* it.  A duration is the same pair, meaning s + n/10^9 seconds; the code  *)
(* keeps it in minutes, which is this value divided by 60.                 *)
(***************************************************************************)
EXTENDS Integers, Sequences, FiniteSets, TLC

VARIABLES
    source,        \* data_source/echantillon.parquet: the raw rows
    extracted,     \* output/extract/extracted_data.parquet, or NoFile
    xpc,           \* extract_data: "start", "done", "failed"
    tpc,           \* transform_data: position in the pipeline
    self_df,       \* DataTransformer.df
    df,            \* the local df of transform_data
    anomalies,     \* DataTransformer.anomalies
    transformed,   \* output/transform/transformed_data.parquet, or NoFile
    anomaly_file,  \* output/transform/anomalies_<ts>.parquet, or NoFile
    report,        \* output/transform/transformation_report.json, or NoFile
    schema,        \* the warehouse: do the four tables exist
    dim_time,      \* rows of dim_time
    dim_location,  \* rows of dim_location
    dim_payment,   \* rows of dim_payment
    fact_trips,    \* rows of fact_trips
    serial,        \* the SERIAL / BIGSERIAL sequence of each table
    lpc,           \* load_to_dw: position of each run
    ldf,           \* load_to_dw: the local df of each run
    fact_data,     \* load_to_dw: the local fact_data of each run
    out,           \* load_to_dw: what each run printed
    runs           \* number of load runs started so far

tvars == <<source, extracted, xpc, tpc, self_df, df, anomalies, transformed,
           anomaly_file, report>>
lvars == <<schema, dim_time, dim_location, dim_payment, fact_trips, serial,
           lpc, ldf, fact_data, out, runs>>
vars == <<source, extracted, xpc, tpc, self_df, df, anomalies, transformed,
          anomaly_file, report, schema, dim_time, dim_location, dim_payment,
          fact_trips, serial, lpc, ldf, fact_data, out, runs>>

----------------------------------------------------------------------------
(* Bounds of the model. *)

\* longest batch of raw rows
MaxBatch == 2
\* a single-row batch differs from the reference trip in at most this many columns
MaxDev == 2
\* load runs started in one behaviour
MaxRuns == 2

----------------------------------------------------------------------------
(* Values of a cell. *)

Num(v) == [k |-> "num", v |-> v]
\* pandas' missing value of a nullable column (<NA>)
NA == [k |-> "na", v |-> 0]
\* the float results of a division by zero
PosInf == [k |-> "inf", v |-> 1]
NegInf == [k |-> "inf", v |-> -1]
NaN == [k |-> "nan", v |-> 0]
\* the column does not exist (yet) in the frame
Absent == [k |-> "absent", v |-> 0]
NoCol == "absent"
\* a missing string cell (NaN in an object column)
NoStr == "nan"

Ts(s, n) == [k |-> "ts", s |-> s, n |-> n]
NaT == [k |-> "nat", s |-> 0, n |-> 0]
Dur(s, n) == [k |-> "dur", s |-> s, n |-> n]
NoTs == [k |-> "absent", s |-> 0, n |-> 0]

\* a parquet file: absent, or holding a frame
NoFile == [exists |-> FALSE, rows |-> <<>>]
File(rows) == [exists |-> TRUE, rows |-> rows]

NsPerSec == 1000 * 1000 * 1000

Abs(i) == IF i < 0 THEN -i ELSE i

SeqToSet(s) == {s[i] : i \in 1..Len(s)}

RECURSIVE Reindex(_, _)
\* a frame read back from a file written with index=False: RangeIndex from i
Reindex(s, i) ==
    IF s = <<>> THEN <<>>
    ELSE <<[Head(s) EXCEPT !.idx = i]>> \o Reindex(Tail(s), i + 1)

----------------------------------------------------------------------------
(* The raw rows the model feeds the pipeline. *)

\* the reference trip: 08:00 -> 08:10, 2.0 miles, fare 10.0, 1 passenger
BaseSeed ==
    [pickup |-> Ts(28800, 0), elapsed |-> 600, no_dropoff |-> FALSE,
     passenger_count |-> Num(1), trip_distance |-> Num(2000),
     PULocationID |-> Num(100), DOLocationID |-> Num(100),
     payment_type |-> Num(1), fare_amount |-> Num(1000),
     total_amount |-> Num(1250)]

\* the other values of each column; elapsed is dropoff - pickup in seconds
Alt ==
    [pickup |-> {Ts(28800, 400), Ts(64800, 0), NaT},
     elapsed |-> {0, -600, 36},
     no_dropoff |-> {TRUE},
     passenger_count |-> {Num(0), NA},
     trip_distance |-> {NA, Num(0), Num(99), Num(100), Num(100010)},
     PULocationID |-> {Num(161)},
     DOLocationID |-> {Num(161)},
     payment_type |-> {Num(2), Num(5)},
     fare_amount |-> {NA, Num(0)},
     total_amount |-> {Num(0)}]

RECURSIVE Deviants(_)
\* the seeds that differ from BaseSeed in at most k columns
Deviants(k) ==
    IF k = 0 THEN {BaseSeed}
    ELSE LET prev == Deviants(k - 1)
         IN  prev \cup UNION {{[r EXCEPT ![f] = v] : v \in Alt[f]} :
                                 <<r, f>> \in prev \X DOMAIN Alt}

\* dropoff = pickup + elapsed seconds
AddSeconds(t, e) == IF t.k = "ts" THEN Ts(t.s + e, t.n) ELSE NaT

\* a row of the source file, with every column a later stage adds still absent
RawRow(seed) ==
    [idx |-> 0,
     VendorID |-> Num(1),
     tpep_pickup_datetime |-> seed.pickup,
     tpep_dropoff_datetime |->
         IF seed.no_dropoff THEN NaT ELSE AddSeconds(seed.pickup, seed.elapsed),
     passenger_count |-> seed.passenger_count,
     trip_distance |-> seed.trip_distance,
     PULocationID |-> seed.PULocationID,
     DOLocationID |-> seed.DOLocationID,
     RatecodeID |-> Num(1),
     payment_type |-> seed.payment_type,
     fare_amount |-> seed.fare_amount,
     total_amount |-> seed.total_amount,
     trip_duration |-> Absent,
     avg_speed |-> Absent,
     rejection_reason |-> NoCol,
     pickup_hour |-> Absent,
     day_of_week |-> NoCol,
     time_period |-> NoCol,
     payment_label |-> NoCol,
     ratecode_label |-> NoCol]

RECURSIVE SeqsUpTo(_, _)
\* the sequences over S of length 1..n
SeqsUpTo(S, n) ==
    IF n = 0 THEN {}
    ELSE LET shorter == SeqsUpTo(S, n - 1)
         IN  {<<x>> : x \in S} \cup shorter
             \cup {Append(s, x) : <<s, x>> \in shorter \X S}

\* one row with up to MaxDev unusual columns, or up to MaxBatch rows with one each
Batches ==
    LET one == {<<RawRow(d)>> : d \in Deviants(MaxDev)}
        many == SeqsUpTo({RawRow(d) : d \in Deviants(1)}, MaxBatch)
    IN  {Reindex(b, 0) : b \in one \cup many}

----------------------------------------------------------------------------
(* extract.py *)

\* fillna(0) of an integer column
FillNa0(x) == IF x = NA THEN Num(0) ELSE x

\* dropna(subset=date_cols): the row has both timestamps
HasDates(r) ==
    r.tpep_pickup_datetime # NaT /\ r.tpep_dropoff_datetime # NaT

\* df[int_cols].fillna(0).astype('int16') on one row
ExtractRow(r) ==
    [r EXCEPT !.VendorID = FillNa0(@),
              !.passenger_count = FillNa0(@),
              !.PULocationID = FillNa0(@),
              !.DOLocationID = FillNa0(@)]

\* the frame extract_data builds from the source rows
ExtractFrame(rows) ==
    LET kept == SelectSeq(rows, HasDates)
    IN  [i \in 1..Len(kept) |-> ExtractRow(kept[i])]

\* extract_data: writes the file (index=False), or raises on an empty frame
ExtractData ==
    /\ xpc = "start"
    /\ LET frame == ExtractFrame(source)
       IN  IF frame = <<>>
           THEN /\ xpc' = "failed"
                /\ UNCHANGED extracted
           ELSE /\ xpc' = "done"
                /\ extracted' = File(Reindex(frame, 0))
    /\ UNCHANGED <<source, tpc, self_df, df, anomalies, transformed,
                   anomaly_file, report>>
    /\ UNCHANGED lvars

----------------------------------------------------------------------------
(* transform.py: calculate_metrics *)

\* dropoff - pickup, as s + n/10^9 seconds with 0 <= n < 10^9
Diff(b, a) ==
    IF a.k # "ts" \/ b.k # "ts" THEN NaN
    ELSE IF b.n >= a.n THEN Dur(b.s - a.s, b.n - a.n)
    ELSE Dur(b.s - a.s - 1, b.n - a.n + NsPerSec)

DurIsZero(d) == d.k = "dur" /\ d.s = 0 /\ d.n = 0
\* trip_duration <= 0 (False on NaN)
DurLe0(d) == d.k = "dur" /\ (d.s < 0 \/ DurIsZero(d))

\* round(p / q) for p >= 0, q > 0, ties to the even neighbour (numpy's round)
RoundHalfEven(p, q) ==
    LET f == p \div q
        r == p % q
    IN  IF 2 * r < q THEN f
        ELSE IF 2 * r > q THEN f + 1
        ELSE IF f % 2 = 0 THEN f ELSE f + 1

\* round(p / q) for any sign of p and q, q # 0
RoundDiv(p, q) ==
    IF (p >= 0) = (q > 0)
    THEN RoundHalfEven(Abs(p), Abs(q))
    ELSE -RoundHalfEven(Abs(p), Abs(q))

\* trip_distance / (trip_duration / 60), rounded to 2 decimals: hundredths of
\* a mile per hour from thousandths of a mile and seconds
Speed(dist, d) ==
    IF dist = NA THEN NA
    ELSE IF d.k # "dur" THEN NaN
    ELSE IF DurIsZero(d)
         THEN (IF dist.v > 0 THEN PosInf ELSE IF dist.v < 0 THEN NegInf ELSE NaN)
    ELSE IF d.n = 0 THEN Num(RoundDiv(dist.v * 360, d.s))
    ELSE Num(RoundDiv(dist.v * 360 * NsPerSec, d.s * NsPerSec + d.n))

MetricsRow(r) ==
    LET d == Diff(r.tpep_dropoff_datetime, r.tpep_pickup_datetime)
    IN  [r EXCEPT !.trip_duration = d,
                  !.avg_speed = Speed(r.trip_distance, d)]

\* calculate_metrics: the frame with its two new columns
calculate_metrics(frame) == [i \in 1..Len(frame) |-> MetricsRow(frame[i])]

----------------------------------------------------------------------------
(* transform.py: handle_anomalies *)

\* Masks are pandas boolean arrays: "T", "F", or "NA" on a nullable column.
K3Not(m) == IF m = "T" THEN "F" ELSE IF m = "F" THEN "T" ELSE "NA"
K3And(a, b) ==
    IF a = "F" \/ b = "F" THEN "F"
    ELSE IF a = "T" /\ b = "T" THEN "T" ELSE "NA"
Bool3(b) == IF b THEN "T" ELSE "F"

DistanceMin == 100
DistanceMax == 100000
SpeedMin == 100
SpeedMax == 10000

\* Series.between(lo, hi), inclusive; NaN and comparisons with it are False
Between(x, lo, hi) ==
    IF x = NA THEN "NA"
    ELSE IF x.k = "num" THEN Bool3(lo <= x.v /\ x.v <= hi)
    ELSE "F"

\* x <= 0 on a numeric column
Le0(x) ==
    IF x = NA THEN "NA"
    ELSE IF x.k = "num" THEN Bool3(x.v <= 0)
    ELSE IF x = NegInf THEN "T" ELSE "F"

\* the dict `conditions`, in insertion order
Reasons ==
    <<"Duree invalide", "Distance hors limites", "Montant de course invalide",
      "Passagers invalides", "Vitesse irrealiste">>

\* the mask of rule i on a row
Condition(i, r) ==
    CASE i = 1 -> Bool3(DurLe0(r.trip_duration))
      [] i = 2 -> K3Not(Between(r.trip_distance, DistanceMin, DistanceMax))
      [] i = 3 -> Le0(r.fare_amount)
      [] i = 4 -> Le0(r.passenger_count)
      [] i = 5 -> K3Not(Between(r.avg_speed, SpeedMin, SpeedMax))

\* the assignment without the isna() guard: a later rule overwrites the reason
AssignReasonOverwriting(i, r, reason) ==
    IF Condition(i, r) = "T" THEN Reasons[i] ELSE reason

\* df.loc[mask & df['rejection_reason'].isna(), 'rejection_reason'] = reason:
\* a row is selected where the mask is True (NA selects nothing)
AssignReason(i, r, reason) ==
    IF K3And(Condition(i, r), Bool3(reason = NoStr)) = "T"
    THEN Reasons[i] ELSE reason

RECURSIVE ApplyRules(_, _, _)
\* the loop over conditions.items(), from rule i on
ApplyRules(i, r, reason) ==
    IF i > Len(Reasons) THEN reason
    ELSE ApplyRules(i + 1, r, AssignReason(i, r, reason))

\* the frame after the loop: every row with its rejection_reason column
TagRow(r) == [r EXCEPT !.rejection_reason = ApplyRules(1, r, NoStr)]
Tagged(frame) == [i \in 1..Len(frame) |-> TagRow(frame[i])]

HasReason(r) == r.rejection_reason # NoStr
HasNoReason(r) == r.rejection_reason = NoStr
DropReason(r) == [r EXCEPT !.rejection_reason = NoCol]

\* df[df['rejection_reason'].notna()].copy()
AnomalyRows(frame) == SelectSeq(Tagged(frame), HasReason)
\* the valid frame without its filter: every row is returned
ValidRowsUnfiltered(frame) ==
    [i \in 1..Len(frame) |-> DropReason(Tagged(frame)[i])]

\* df[df['rejection_reason'].isna()].drop(columns=['rejection_reason'])
ValidRows(frame) ==
    LET kept == SelectSeq(Tagged(frame), HasNoReason)
    IN  [i \in 1..Len(kept) |-> DropReason(kept[i])]

----------------------------------------------------------------------------
(* transform.py: add_time_features, encode_features, the post-processing *)

DayNames ==
    <<"Monday", "Tuesday", "Wednesday", "Thursday", "Friday", "Saturday",
      "Sunday">>

\* dt.hour
Hour(t) == (t.s \div 3600) % 24
\* dt.day_name(): 1970-01-01 was a Thursday
DayName(t) == DayNames[(((t.s \div 86400) + 3) % 7) + 1]

\* np.select(conditions, choices, default='Inconnu')
TimePeriod(h) ==
    IF 0 <= h /\ h <= 5 THEN "Nuit"
    ELSE IF 6 <= h /\ h <= 11 THEN "Matin"
    ELSE IF 12 <= h /\ h <= 17 THEN "Apres-midi"
    ELSE IF 18 <= h /\ h <= 23 THEN "Soir"
    ELSE "Inconnu"

TimeFeaturesRow(r) ==
    [r EXCEPT !.pickup_hour = Num(Hour(r.tpep_pickup_datetime)),
              !.day_of_week = DayName(r.tpep_pickup_datetime),
              !.time_period = TimePeriod(Hour(r.tpep_pickup_datetime))]

add_time_features(frame) == [i \in 1..Len(frame) |-> TimeFeaturesRow(frame[i])]

\* Series.map(payment_labels): a code outside the dict maps to NaN
PaymentLabel(x) ==
    IF x = Num(1) THEN "Carte de credit"
    ELSE IF x = Num(2) THEN "Especes"
    ELSE IF x = Num(3) THEN "Gratuit"
    ELSE IF x = Num(4) THEN "Conflit"
    ELSE NoStr

\* Series.map(ratecode_labels)
RatecodeLabel(x) ==
    IF x = Num(1) THEN "Standard"
    ELSE IF x = Num(2) THEN "Aeroport JFK"
    ELSE IF x = Num(3) THEN "Aeroport Newark"
    ELSE IF x = Num(4) THEN "Aeroport LaGuardia"
    ELSE IF x = Num(5) THEN "Course partagee"
    ELSE IF x = Num(6) THEN "Location"
    ELSE NoStr

EncodeRow(r) ==
    [r EXCEPT !.payment_label = PaymentLabel(r.payment_type),
              !.ratecode_label = RatecodeLabel(r.RatecodeID)]

encode_features(frame) == [i \in 1..Len(frame) |-> EncodeRow(frame[i])]

\* the subset of drop_duplicates in transform_data
TripKey(r) == <<r.tpep_pickup_datetime, r.tpep_dropoff_datetime>>

\* DataFrame.drop_duplicates: of the rows s with the keys given beside them,
\* the first row of each key is kept
drop_duplicates(s, keys) ==
    LET first == SelectSeq([i \in 1..Len(s) |-> i],
                           LAMBDA i : \A j \in 1..(i - 1) : keys[j] # keys[i])
    IN  [k \in 1..Len(first) |-> s[first[k]]]

\* df.convert_dtypes().drop_duplicates(subset=[pickup, dropoff])
PostProcessed(frame) ==
    drop_duplicates(frame, [i \in 1..Len(frame) |-> TripKey(frame[i])])

----------------------------------------------------------------------------
(* transform.py: generate_report *)

NoReport ==
    [exists |-> FALSE, total_processed |-> 0, anomaly_rate |-> 0,
     anomaly_details |-> [x \in {} |-> 0]]

\* value_counts().to_dict(): each reason present, with its number of rows
ValueCounts(rows) ==
    [x \in {rows[i].rejection_reason : i \in 1..Len(rows)} |->
        Cardinality({i \in 1..Len(rows) : rows[i].rejection_reason = x})]

\* len(self.anomalies) + len(self.df)
TotalProcessed(anoms, frame) == Len(anoms) + Len(frame)

\* the report; anomaly_rate in hundredths of a percent (the "%.2f" of the code)
Report(anoms, frame) ==
    [exists |-> TRUE,
     total_processed |-> TotalProcessed(anoms, frame),
     anomaly_rate |->
         RoundHalfEven(Len(anoms) * 10000, TotalProcessed(anoms, frame)),
     anomaly_details |-> ValueCounts(anoms)]

----------------------------------------------------------------------------
(* transform.py: transform_data, one action per statement of the pipeline *)

\* transformer.load_data(input_path): read_parquet raises when there is no file
CallLoadData ==
    /\ tpc = "start"
    /\ IF extracted.exists
       THEN /\ tpc' = "loaded"
            /\ self_df' = extracted.rows
            /\ df' = extracted.rows
       ELSE /\ tpc' = "failed"
            /\ UNCHANGED <<self_df, df>>
    /\ UNCHANGED <<source, extracted, xpc, anomalies, transformed,
                   anomaly_file, report>>
    /\ UNCHANGED lvars

\* df = transformer.calculate_metrics(df): the columns are added to the frame
\* it is given, which is transformer.df itself
CallCalculateMetrics ==
    /\ tpc = "loaded"
    /\ tpc' = "metrics"
    /\ df' = calculate_metrics(df)
    /\ self_df' = calculate_metrics(df)
    /\ UNCHANGED <<source, extracted, xpc, anomalies, transformed,
                   anomaly_file, report>>
    /\ UNCHANGED lvars

\* df = transformer.handle_anomalies(df): rejection_reason is written into the
\* frame it is given (still transformer.df); the valid rows are a new frame
CallHandleAnomalies ==
    /\ tpc = "metrics"
    /\ tpc' = "classified"
    /\ self_df' = Tagged(df)
    /\ anomalies' = IF AnomalyRows(df) # <<>>
                    THEN anomalies \o AnomalyRows(df) ELSE anomalies
    /\ df' = ValidRows(df)
    /\ UNCHANGED <<source, extracted, xpc, transformed, anomaly_file, report>>
    /\ UNCHANGED lvars

CallAddTimeFeatures ==
    /\ tpc = "classified"
    /\ tpc' = "timed"
    /\ df' = add_time_features(df)
    /\ UNCHANGED <<source, extracted, xpc, self_df, anomalies, transformed,
                   anomaly_file, report>>
    /\ UNCHANGED lvars

CallEncodeFeatures ==
    /\ tpc = "timed"
    /\ tpc' = "encoded"
    /\ df' = encode_features(df)
    /\ UNCHANGED <<source, extracted, xpc, self_df, anomalies, transformed,
                   anomaly_file, report>>
    /\ UNCHANGED lvars

PostProcess ==
    /\ tpc = "encoded"
    /\ tpc' = "post"
    /\ df' = PostProcessed(df)
    /\ UNCHANGED <<source, extracted, xpc, self_df, anomalies, transformed,
                   anomaly_file, report>>
    /\ UNCHANGED lvars

\* transformer.save_artifacts(df, output_dir)
CallSaveArtifacts ==
    /\ tpc = "post"
    /\ tpc' = "saved"
    /\ transformed' = File(df)
    /\ anomaly_file' = IF anomalies # <<>> THEN File(anomalies) ELSE anomaly_file
    /\ UNCHANGED <<source, extracted, xpc, self_df, df, anomalies, report>>
    /\ UNCHANGED lvars

\* transformer.generate_report(output_dir): self.anomalies['rejection_reason']
\* raises KeyError on the column-less frame of a run without anomalies
CallGenerateReport ==
    /\ tpc = "saved"
    /\ IF anomalies = <<>>
       THEN /\ tpc' = "failed"
            /\ UNCHANGED report
       ELSE /\ tpc' = "done"
            /\ report' = Report(anomalies, self_df)
    /\ UNCHANGED <<source, extracted, xpc, self_df, df, anomalies, transformed,
                   anomaly_file>>
    /\ UNCHANGED lvars

----------------------------------------------------------------------------
(* load.py: the warehouse.  A row of a table carries tx: 0 once committed,  *)
(* else the run whose open transaction inserted it.                         *)

\* two invocations of the script may run against the same warehouse
Procs == {1, 2}

Tables == {"dim_time", "dim_location", "dim_payment", "fact_trips"}

\* a TIMESTAMP column keeps microseconds: the nanoseconds below are lost
StoreTimestamp(t) == Ts(t.s, (t.n \div 1000) * 1000)

\* round(p / q), ties away from zero, for p >= 0 and q > 0 (NUMERIC rounding)
RoundHalfAway(p, q) ==
    IF 2 * (p % q) >= q THEN (p \div q) + 1 ELSE p \div q

\* NUMERIC(8,2) of a distance held in thousandths: hundredths
NumericOfDistance(x) ==
    IF x.k # "num" THEN NA
    ELSE IF x.v >= 0 THEN Num(RoundHalfAway(x.v, 10))
    ELSE Num(-RoundHalfAway(-x.v, 10))

\* NUMERIC(8,2) of trip_duration: hundredths of a minute
NumericOfDuration(d) ==
    IF d.k # "dur" THEN NA
    ELSE IF d.n = 0
         THEN (IF d.s >= 0 THEN Num(RoundHalfAway(d.s * 100, 60))
               ELSE Num(-RoundHalfAway((-d.s) * 100, 60)))
    ELSE Num(RoundHalfAway(d.s * NsPerSec + d.n, 600 * 1000 * 1000))

\* a float measure written by to_sql: a missing value becomes NULL
NumericOf(x) == IF x.k = "num" THEN x ELSE NA

----------------------------------------------------------------------------
(* load.py: the dimension candidates (lines 114-117, 127-130, 140) *)

TimeCandidate(r) ==
    [datetime |-> r.tpep_pickup_datetime,
     hour |-> Hour(r.tpep_pickup_datetime),
     day_of_week |-> r.day_of_week,
     time_period |-> r.time_period]

\* time_df: the four columns, drop_duplicates()
TimeCandidates(frame) ==
    LET time_df == [i \in 1..Len(frame) |-> TimeCandidate(frame[i])]
    IN  drop_duplicates(time_df, time_df)

PULocation(r) == [location_id |-> r.PULocationID]
DOLocation(r) == [location_id |-> r.DOLocationID]

\* locations: the pickup codes, then the dropoff codes, drop_duplicates()
LocationCandidates(frame) ==
    LET locations == [i \in 1..Len(frame) |-> PULocation(frame[i])]
                     \o [i \in 1..Len(frame) |-> DOLocation(frame[i])]
    IN  drop_duplicates(locations, locations)

PaymentCandidate(r) == [payment_type |-> r.payment_label]

\* payments: the payment_label column, drop_duplicates()
PaymentCandidates(frame) ==
    LET payments == [i \in 1..Len(frame) |-> PaymentCandidate(frame[i])]
    IN  drop_duplicates(payments, payments)

\* the candidates of a dimension table
Candidates(table, frame) ==
    CASE table = "dim_time" -> TimeCandidates(frame)
      [] table = "dim_location" -> LocationCandidates(frame)
      [] table = "dim_payment" -> PaymentCandidates(frame)

----------------------------------------------------------------------------
(* load.py: INSERT ... ON CONFLICT DO NOTHING (lines 121-123, 134-136, 144-146) *)

\* the row the store builds from a candidate: column types applied, surrogate
\* key pk from the table's sequence
DimRow(table, c, pk, p) ==
    CASE table = "dim_time" ->
            [pk |-> pk, key |-> StoreTimestamp(c.datetime),
             attrs |-> <<c.hour, c.day_of_week, c.time_period>>, tx |-> p]
      [] table = "dim_location" ->
            [pk |-> pk, key |-> c.location_id, attrs |-> <<"Inconnu">>, tx |-> p]
      [] table = "dim_payment" ->
            [pk |-> pk, key |-> c.payment_type, attrs |-> <<>>, tx |-> p]

\* a NOT NULL column of the candidate is missing
ViolatesNotNull(table, c) ==
    CASE table = "dim_time" ->
            c.datetime.k # "ts" \/ c.day_of_week = NoStr \/ c.time_period = NoStr
      [] table = "dim_location" -> c.location_id.k # "num"
      [] table = "dim_payment" -> c.payment_type = NoStr

RECURSIVE InsertAll(_, _, _, _, _)
\* a plain INSERT of every candidate, conflict or not
InsertAll(table, rows, cands, next, p) ==
    IF cands = <<>> THEN [rows |-> rows, next |-> next]
    ELSE InsertAll(table, rows \cup {DimRow(table, Head(cands), next, p)},
                   Tail(cands), next + 1, p)

RECURSIVE OnConflictDoNothing(_, _, _, _, _)
\* the candidates in order: each draws the next value of the sequence, and is
\* inserted unless a row with its natural key is already there
OnConflictDoNothing(table, rows, cands, next, p) ==
    IF cands = <<>> THEN [rows |-> rows, next |-> next]
    ELSE LET new == DimRow(table, Head(cands), next, p)
             conflict == \E r \in rows : r.key = new.key
         IN  OnConflictDoNothing(table,
                                 IF conflict THEN rows ELSE rows \cup {new},
                                 Tail(cands), next + 1, p)

\* the statement has to wait: a candidate's key is held by a row that another
\* open transaction inserted
Blocked(table, rows, cands, p) ==
    \E i \in 1..Len(cands) : \E r \in rows :
        /\ r.tx \notin {0, p}
        /\ r.key = DimRow(table, cands[i], 0, p).key

\* what a statement of run p sees (READ COMMITTED): committed rows and its own
Visible(rows, p) == {r \in rows : r.tx \in {0, p}}

----------------------------------------------------------------------------
(* load.py: key resolution and the fact frame (lines 150-200) *)

\* the rows of `keys` whose natural key equals the value of the left column
Matches(keys, value) == {k \in keys : k.key = value}

\* a join that takes a row of `keys` whatever its natural key
LookupAnyRow(keys, value) == (CHOOSE k \in keys : TRUE).pk

\* the surrogate key an inner merge joins to the row
Lookup(keys, value) == (CHOOSE k \in Matches(keys, value) : TRUE).pk

\* the row survives the four inner merges
Resolved(r, tk, lk, pk) ==
    /\ Matches(tk, r.tpep_pickup_datetime) # {}
    /\ Matches(lk, r.PULocationID) # {}
    /\ Matches(lk, r.DOLocationID) # {}
    /\ Matches(pk, r.payment_label) # {}

\* the selected and renamed columns of a merged row; origin is not a column:
\* it records the natural keys of the row of df the fact was built from
FactOf(r, tk, lk, pk) ==
    [time_pk |-> Lookup(tk, r.tpep_pickup_datetime),
     pickup_loc_pk |-> Lookup(lk, r.PULocationID),
     dropoff_loc_pk |-> Lookup(lk, r.DOLocationID),
     payment_pk |-> Lookup(pk, r.payment_label),
     passenger_count |-> r.passenger_count,
     trip_distance |-> r.trip_distance,
     fare_amount |-> r.fare_amount,
     total_amount |-> r.total_amount,
     duration_min |-> r.trip_duration,
     avg_speed |-> r.avg_speed,
     origin |-> <<r.tpep_pickup_datetime, r.PULocationID, r.DOLocationID,
                  r.payment_label>>]

RECURSIVE MergeKeys(_, _, _, _)
\* df.merge(time_keys).merge(loc_keys).merge(loc_keys).merge(payment_keys):
\* inner joins, so a row without a match in any of them is left out
MergeKeys(frame, tk, lk, pk) ==
    IF frame = <<>> THEN <<>>
    ELSE (IF Resolved(Head(frame), tk, lk, pk)
          THEN <<FactOf(Head(frame), tk, lk, pk)>> ELSE <<>>)
         \o MergeKeys(Tail(frame), tk, lk, pk)

\* the row of fact_trips the store builds from a row of fact_data
FactRow(f, id, p) ==
    [trip_id |-> id,
     time_pk |-> f.time_pk,
     pickup_loc_pk |-> f.pickup_loc_pk,
     dropoff_loc_pk |-> f.dropoff_loc_pk,
     payment_pk |-> f.payment_pk,
     passenger_count |-> NumericOf(f.passenger_count),
     trip_distance |-> NumericOfDistance(f.trip_distance),
     fare_amount |-> NumericOf(f.fare_amount),
     total_amount |-> NumericOf(f.total_amount),
     duration_min |-> NumericOfDuration(f.duration_min),
     avg_speed |-> NumericOf(f.avg_speed),
     origin |-> f.origin,
     tx |-> p]

\* CHECK (column > 0): passes on NULL
Positive(x) == x.k = "num" => x.v > 0

\* the six CHECK constraints of fact_trips
ChecksPass(row) ==
    /\ Positive(row.passenger_count)
    /\ Positive(row.trip_distance)
    /\ Positive(row.fare_amount)
    /\ Positive(row.total_amount)
    /\ Positive(row.duration_min)
    /\ Positive(row.avg_speed)

\* to_sql(if_exists='append'): the rows of fact_data, ids from the sequence
FactRows(data, next, p) == {FactRow(data[i], next + i - 1, p) : i \in 1..Len(data)}

----------------------------------------------------------------------------
(* load.py: load_to_dw, one action per statement against the store *)

NoOutput == <<>>
Printed(what, n) == [what |-> what, n |-> n]

\* the transaction of run p is rolled back: its rows are gone
RolledBack(rows, p) == {r \in rows : r.tx # p}
\* the transaction of run p commits
Committed(rows, p) == {IF r.tx = p THEN [r EXCEPT !.tx = 0] ELSE r : r \in rows}

\* run p holds a lock on the tables: it has executed a statement of its
\* transaction (an empty df sends no INSERT; the first one is then read_sql)
HoldsLocks(p) ==
    \/ lpc[p] \in {"location", "payment", "keys"} /\ ldf[p] # <<>>
    \/ lpc[p] \in {"facts", "commit"}

\* the except branch: the transaction, if one is open, is rolled back
Raise(p) ==
    /\ lpc' = [lpc EXCEPT ![p] = "failed"]
    /\ dim_time' = RolledBack(dim_time, p)
    /\ dim_location' = RolledBack(dim_location, p)
    /\ dim_payment' = RolledBack(dim_payment, p)
    /\ fact_trips' = RolledBack(fact_trips, p)

\* load_to_dw() is called
StartRun(p) ==
    /\ lpc[p] \in {"idle", "done", "failed"}
    /\ runs < MaxRuns
    /\ runs' = runs + 1
    /\ lpc' = [lpc EXCEPT ![p] = "connect"]
    /\ ldf' = [ldf EXCEPT ![p] = <<>>]
    /\ fact_data' = [fact_data EXCEPT ![p] = <<>>]
    /\ out' = [out EXCEPT ![p] = NoOutput]
    /\ UNCHANGED <<schema, dim_time, dim_location, dim_payment, fact_trips, serial>>
    /\ UNCHANGED tvars

\* lines 99-100: SELECT 1
ConnectCheck(p) ==
    /\ lpc[p] = "connect"
    /\ lpc' = [lpc EXCEPT ![p] = "drop"]
    /\ UNCHANGED <<schema, dim_time, dim_location, dim_payment, fact_trips,
                   serial, ldf, fact_data, out, runs>>
    /\ UNCHANGED tvars

\* create_star_schema, lines 12-16: the four DROP TABLE IF EXISTS ... CASCADE and
\* their commit; they wait for every transaction that holds a lock on a table
DropTables(p) ==
    /\ lpc[p] = "drop"
    /\ \A q \in Procs \ {p} : ~HoldsLocks(q)
    /\ lpc' = [lpc EXCEPT ![p] = "create"]
    /\ schema' = FALSE
    /\ dim_time' = {}
    /\ dim_location' = {}
    /\ dim_payment' = {}
    /\ fact_trips' = {}
    /\ UNCHANGED <<serial, ldf, fact_data, out, runs>>
    /\ UNCHANGED tvars

\* create_star_schema, lines 19-69: the CREATE TABLEs and their commit; CREATE
\* TABLE raises when another run has created the table in between
CreateTables(p) ==
    /\ lpc[p] = "create"
    /\ IF schema
       THEN /\ Raise(p)
            /\ UNCHANGED <<schema, serial, out>>
       ELSE /\ lpc' = [lpc EXCEPT ![p] = "read"]
            /\ schema' = TRUE
            /\ serial' = [t \in Tables |-> 1]
            /\ out' = [out EXCEPT ![p] = Append(@, Printed("schema", 0))]
            /\ UNCHANGED <<dim_time, dim_location, dim_payment, fact_trips>>
    /\ UNCHANGED <<ldf, fact_data, runs>>
    /\ UNCHANGED tvars

\* lines 107-108: pd.read_parquet(input_path)
ReadParquet(p) ==
    /\ lpc[p] = "read"
    /\ IF transformed.exists
       THEN /\ lpc' = [lpc EXCEPT ![p] = "time"]
            /\ ldf' = [ldf EXCEPT ![p] = transformed.rows]
            /\ out' = [out EXCEPT ![p] =
                          Append(@, Printed("loaded", Len(transformed.rows)))]
            /\ UNCHANGED <<dim_time, dim_location, dim_payment, fact_trips>>
       ELSE /\ Raise(p)
            /\ UNCHANGED <<ldf, out>>
    /\ UNCHANGED <<schema, serial, fact_data, runs>>
    /\ UNCHANGED tvars

\* the new rows of a dimension table after the upsert of run p, or the reason
\* the statement raises: the table is gone (reflection fails), or a NOT NULL
\* column is missing
UpsertRaises(table, p) ==
    \/ ~schema
    \/ \E i \in 1..Len(Candidates(table, ldf[p])) :
          ViolatesNotNull(table, Candidates(table, ldf[p])[i])

Upserted(table, rows, p) ==
    OnConflictDoNothing(table, rows, Candidates(table, ldf[p]), serial[table], p)

\* lines 114-124
UpsertDimTime(p) ==
    /\ lpc[p] = "time"
    /\ IF UpsertRaises("dim_time", p)
       THEN /\ Raise(p)
            /\ UNCHANGED <<serial, out>>
       ELSE /\ ~Blocked("dim_time", dim_time, Candidates("dim_time", ldf[p]), p)
            /\ lpc' = [lpc EXCEPT ![p] = "location"]
            /\ dim_time' = Upserted("dim_time", dim_time, p).rows
            /\ serial' = [serial EXCEPT !["dim_time"] =
                             Upserted("dim_time", dim_time, p).next]
            /\ out' = [out EXCEPT ![p] =
                          IF ldf[p] = <<>> THEN @
                          ELSE Append(@, Printed("dim_time",
                                   Len(Candidates("dim_time", ldf[p]))))]
            /\ UNCHANGED <<dim_location, dim_payment, fact_trips>>
    /\ UNCHANGED <<schema, ldf, fact_data, runs>>
    /\ UNCHANGED tvars

\* lines 127-137
UpsertDimLocation(p) ==
    /\ lpc[p] = "location"
    /\ IF UpsertRaises("dim_location", p)
       THEN /\ Raise(p)
            /\ UNCHANGED <<serial, out>>
       ELSE /\ ~Blocked("dim_location", dim_location,
                        Candidates("dim_location", ldf[p]), p)
            /\ lpc' = [lpc EXCEPT ![p] = "payment"]
            /\ dim_location' = Upserted("dim_location", dim_location, p).rows
            /\ serial' = [serial EXCEPT !["dim_location"] =
                             Upserted("dim_location", dim_location, p).next]
            /\ out' = [out EXCEPT ![p] =
                          IF ldf[p] = <<>> THEN @
                          ELSE Append(@, Printed("dim_location",
                                   Len(Candidates("dim_location", ldf[p]))))]
            /\ UNCHANGED <<dim_time, dim_payment, fact_trips>>
    /\ UNCHANGED <<schema, ldf, fact_data, runs>>
    /\ UNCHANGED tvars

\* lines 140-147
UpsertDimPayment(p) ==
    /\ lpc[p] = "payment"
    /\ IF UpsertRaises("dim_payment", p)
       THEN /\ Raise(p)
            /\ UNCHANGED <<serial, out>>
       ELSE /\ ~Blocked("dim_payment", dim_payment,
                        Candidates("dim_payment", ldf[p]), p)
            /\ lpc' = [lpc EXCEPT ![p] = "keys"]
            /\ dim_payment' = Upserted("dim_payment", dim_payment, p).rows
            /\ serial' = [serial EXCEPT !["dim_payment"] =
                             Upserted("dim_payment", dim_payment, p).next]
            /\ out' = [out EXCEPT ![p] =
                          IF ldf[p] = <<>> THEN @
                          ELSE Append(@, Printed("dim_payment",
                                   Len(Candidates("dim_payment", ldf[p]))))]
            /\ UNCHANGED <<dim_time, dim_location, fact_trips>>
    /\ UNCHANGED <<schema, ldf, fact_data, runs>>
    /\ UNCHANGED tvars

\* the fact frame of run p: lines 150-200
ResolvedFacts(p) ==
    MergeKeys(ldf[p], Visible(dim_time, p), Visible(dim_location, p),
              Visible(dim_payment, p))

\* lines 150-200: the three read_sql, the merges, the column selection
ResolveKeys(p) ==
    /\ lpc[p] = "keys"
    /\ IF ~schema
       THEN /\ Raise(p)
            /\ UNCHANGED fact_data
       ELSE /\ lpc' = [lpc EXCEPT ![p] = "facts"]
            /\ fact_data' = [fact_data EXCEPT ![p] = ResolvedFacts(p)]
            /\ UNCHANGED <<dim_time, dim_location, dim_payment, fact_trips>>
    /\ UNCHANGED <<schema, serial, ldf, out, runs>>
    /\ UNCHANGED tvars

\* lines 203-222: to_sql appends the rows, unless a CHECK constraint refuses one
InsertFacts(p) ==
    /\ lpc[p] = "facts"
    /\ LET new == FactRows(fact_data[p], serial["fact_trips"], p)
       IN  IF \E row \in new : ~ChecksPass(row)
           THEN /\ Raise(p)
                /\ UNCHANGED <<serial, out>>
           ELSE /\ lpc' = [lpc EXCEPT ![p] = "commit"]
                /\ fact_trips' = fact_trips \cup new
                /\ serial' = [serial EXCEPT !["fact_trips"] = @ + Len(fact_data[p])]
                /\ out' = [out EXCEPT ![p] =
                              IF fact_data[p] = <<>> THEN @
                              ELSE Append(@, Printed("fact_trips", Len(fact_data[p])))]
                /\ UNCHANGED <<dim_time, dim_location, dim_payment>>
    /\ UNCHANGED <<schema, ldf, fact_data, runs>>
    /\ UNCHANGED tvars

\* the end of `with engine.begin()`: commit, then return True
Commit(p) ==
    /\ lpc[p] = "commit"
    /\ lpc' = [lpc EXCEPT ![p] = "done"]
    /\ dim_time' = Committed(dim_time, p)
    /\ dim_location' = Committed(dim_location, p)
    /\ dim_payment' = Committed(dim_payment, p)
    /\ fact_trips' = Committed(fact_trips, p)
    /\ UNCHANGED <<schema, serial, ldf, fact_data, out, runs>>
    /\ UNCHANGED tvars

\* lines 226-228: a statement fails for a reason of the store (it is
\* unreachable, a deadlock is broken): the exception ends the run
StoreFails(p) ==
    /\ lpc[p] \in {"connect", "drop", "create", "time", "location", "payment",
                   "keys", "facts", "commit"}
    /\ Raise(p)
    /\ UNCHANGED <<schema, serial, ldf, fact_data, out, runs>>
    /\ UNCHANGED tvars

----------------------------------------------------------------------------
(* The extract and transform scripts on every batch. *)

LoadIdle ==
    /\ schema = FALSE
    /\ dim_time = {}
    /\ dim_location = {}
    /\ dim_payment = {}
    /\ fact_trips = {}
    /\ serial = [t \in Tables |-> 1]
    /\ lpc = [p \in Procs |-> "idle"]
    /\ ldf = [p \in Procs |-> <<>>]
    /\ fact_data = [p \in Procs |-> <<>>]
    /\ out = [p \in Procs |-> NoOutput]
    /\ runs = 0

Init ==
    /\ source \in Batches
    /\ extracted = NoFile
    /\ xpc = "start"
    /\ tpc = "start"
    /\ self_df = <<>>
    /\ df = <<>>
    /\ anomalies = <<>>
    /\ transformed = NoFile
    /\ anomaly_file = NoFile
    /\ report = NoReport
    /\ LoadIdle

Next ==
    \/ ExtractData
    \/ CallLoadData
    \/ CallCalculateMetrics
    \/ CallHandleAnomalies
    \/ CallAddTimeFeatures
    \/ CallEncodeFeatures
    \/ PostProcess
    \/ CallSaveArtifacts
    \/ CallGenerateReport

Spec == Init /\ [][Next]_vars

----------------------------------------------------------------------------
(* The load script, after the extract and transform scripts have run. *)

\* the frame transform_data saves for the rows of the extracted file
TransformedFrame(rows) ==
    PostProcessed(encode_features(add_time_features(
        ValidRows(calculate_metrics(rows)))))

\* the seeds of the batches the load script is run on
LoadSeeds ==
    {BaseSeed,
     [BaseSeed EXCEPT !.pickup = Ts(28800, 400)],
     [BaseSeed EXCEPT !.PULocationID = Num(161)],
     [BaseSeed EXCEPT !.payment_type = Num(5)],
     [BaseSeed EXCEPT !.total_amount = Num(0)],
     [BaseSeed EXCEPT !.elapsed = 0]}

LoadBatches ==
    {Reindex(b, 0) : b \in SeqsUpTo({RawRow(d) : d \in LoadSeeds}, MaxBatch)}

\* the state in which extract_data and transform_data have returned
InitLoad ==
    /\ source \in LoadBatches
    /\ extracted = File(Reindex(ExtractFrame(source), 0))
    /\ xpc = "done"
    /\ self_df = Tagged(calculate_metrics(extracted.rows))
    /\ anomalies = AnomalyRows(calculate_metrics(extracted.rows))
    /\ df = TransformedFrame(extracted.rows)
    /\ transformed = File(df)
    /\ anomaly_file = IF anomalies # <<>> THEN File(anomalies) ELSE NoFile
    /\ report = IF anomalies # <<>> THEN Report(anomalies, self_df) ELSE NoReport
    /\ tpc = IF anomalies # <<>> THEN "done" ELSE "failed"
    /\ LoadIdle

NextLoad ==
    \E p \in Procs :
        \/ StartRun(p)
        \/ ConnectCheck(p)
        \/ DropTables(p)
        \/ CreateTables(p)
        \/ ReadParquet(p)
        \/ UpsertDimTime(p)
        \/ UpsertDimLocation(p)
        \/ UpsertDimPayment(p)
        \/ ResolveKeys(p)
        \/ InsertFacts(p)
        \/ Commit(p)
        \/ StoreFails(p)

SpecLoad == InitLoad /\ [][NextLoad]_vars

----------------------------------------------------------------------------
(* The claims about the transform script, under Spec. *)

\* the raw columns of a row, with its index: what identifies an input record
Record(r) ==
    <<r.idx, r.VendorID, r.tpep_pickup_datetime, r.tpep_dropoff_datetime,
      r.passenger_count, r.trip_distance, r.PULocationID, r.DOLocationID,
      r.RatecodeID, r.payment_type, r.fare_amount, r.total_amount>>

Records(rows) == {Record(rows[i]) : i \in 1..Len(rows)}

\* handle_anomalies has returned and nothing has touched its outputs yet
Classified == tpc = "classified"

\* C1: at the return of handle_anomalies every input record is in exactly one
\* of the returned valid frame and the anomalies recorded by the call: the two
\* are disjoint, and their sizes add up to the size of the input.
C1_PartitionCompleteness ==
    Classified =>
        /\ Len(df) + Len(anomalies) = Len(extracted.rows)
        /\ Records(df) \cap Records(anomalies) = {}
        /\ Records(df) \cup Records(anomalies) = Records(extracted.rows)
        /\ Cardinality(Records(df)) = Len(df)
        /\ Cardinality(Records(anomalies)) = Len(anomalies)

\* a batch that handle_anomalies split into a valid and a quarantined part
C1_Witness == Classified /\ Len(df) >= 1 /\ Len(anomalies) >= 1

\* The five rules as the claim words them, on the values of a row.
RuleHolds(i, r) ==
    CASE i = 1 -> /\ r.trip_duration.k = "dur"
                  /\ \/ r.trip_duration.s < 0
                     \/ r.trip_duration.s = 0 /\ r.trip_duration.n = 0
      [] i = 2 -> /\ r.trip_distance.k = "num"
                  /\ \/ r.trip_distance.v < DistanceMin
                     \/ r.trip_distance.v > DistanceMax
      [] i = 3 -> r.fare_amount.k = "num" /\ r.fare_amount.v <= 0
      [] i = 4 -> r.passenger_count.k = "num" /\ r.passenger_count.v <= 0
      [] i = 5 -> \/ r.avg_speed.k = "inf"
                  \/ /\ r.avg_speed.k = "num"
                     /\ \/ r.avg_speed.v < SpeedMin
                        \/ r.avg_speed.v > SpeedMax

RuleNames ==
    <<"Duree invalide", "Distance hors limites", "Montant de course invalide",
      "Passagers invalides", "Vitesse irrealiste">>

\* the reason of the first rule that holds of the row, or none
FirstRule(r) ==
    IF \E i \in 1..5 : RuleHolds(i, r)
    THEN RuleNames[CHOOSE i \in 1..5 :
                     RuleHolds(i, r) /\ \A j \in 1..(i - 1) : ~RuleHolds(j, r)]
    ELSE NoStr

\* the classifier has run: transformer.df holds every row with its reason
AfterClassify == tpc \in {"classified", "timed", "encoded", "post", "saved", "done"}

\* C2: the reason of every row is the first rule, in the order duration,
\* distance, fare, passengers, speed, that holds of it, and none when no rule
\* holds; the quarantined rows are the rows with a reason, each with that one.
C2_RulePriority ==
    AfterClassify =>
        /\ \A i \in 1..Len(self_df) :
              self_df[i].rejection_reason = FirstRule(self_df[i])
        /\ \A i \in 1..Len(anomalies) :
              anomalies[i].rejection_reason = FirstRule(anomalies[i])

\* a trip with pickup = dropoff and a distance out of range, tagged by the
\* duration rule alone
C2_Witness ==
    /\ AfterClassify
    /\ \E i \in 1..Len(anomalies) :
          /\ anomalies[i].tpep_pickup_datetime = anomalies[i].tpep_dropoff_datetime
          /\ RuleHolds(2, anomalies[i])
          /\ anomalies[i].rejection_reason = "Duree invalide"

RECURSIVE SumCounts(_, _)
SumCounts(f, keys) ==
    IF keys = {} THEN 0
    ELSE LET x == CHOOSE y \in keys : TRUE
         IN  f[x] + SumCounts(f, keys \ {x})

\* C6: when transform_data has run to its end there is a report, its total is
\* the number of input records, its rate is quarantined / input and its
\* per-reason counts add up to the number of quarantined records.
C6_ReportReflectsClassification ==
    tpc \in {"done", "failed"} /\ transformed.exists =>
        /\ report.exists
        /\ report.total_processed = Len(extracted.rows)
        /\ report.anomaly_rate =
              RoundHalfEven(Len(anomalies) * 10000, Len(extracted.rows))
        /\ SumCounts(report.anomaly_details, DOMAIN report.anomaly_details)
              = Len(anomalies)

\* a numeric value of the row is missing or undefined
Undefined(x) == x.k \in {"na", "nan", "inf"}
HasUndefinedValue(r) ==
    \/ Undefined(r.fare_amount)
    \/ Undefined(r.passenger_count)
    \/ Undefined(r.trip_distance)
    \/ r.trip_duration.k # "dur"
    \/ Undefined(r.avg_speed)

\* C7: a row with a missing or undefined numeric value is quarantined with a
\* reason and is not in the valid frame.
C7_ClassificationTotal ==
    Classified =>
        \A i \in 1..Len(self_df) :
            HasUndefinedValue(self_df[i]) =>
                /\ self_df[i].rejection_reason # NoStr
                /\ Record(self_df[i]) \notin Records(df)

\* C10: once the artifacts are saved, every input record is in the saved
\* transformed dataset or in the saved anomalies with a reason.
C10_NoRecordLost ==
    transformed.exists =>
        \A rec \in Records(extracted.rows) :
            \/ rec \in Records(transformed.rows)
            \/ \E i \in 1..Len(anomaly_file.rows) :
                  /\ Record(anomaly_file.rows[i]) = rec
                  /\ anomaly_file.rows[i].rejection_reason # NoStr

\* the positions from which transform_data calls a stage: calculate_metrics,
\* handle_anomalies, add_time_features, encode_features
StagePositions == {"loaded", "metrics", "classified", "timed"}

\* the frame object the stage called next receives. calculate_metrics and
\* handle_anomalies are given transformer.df itself; the two later stages
\* are given the frame handle_anomalies returned
ReceivedFrame == IF tpc \in {"loaded", "metrics"} THEN self_df ELSE df

\* the same object once the call has returned. Every stage assigns its
\* columns into the frame it was given (df[...] = ...); calculate_metrics,
\* add_time_features and encode_features return that very frame
ReceivedFrameAfter == IF tpc \in {"loaded", "metrics"} THEN self_df' ELSE df'

\* C11: no stage changes the record set it receives: over a call of
\* calculate_metrics, handle_anomalies, add_time_features or encode_features
\* the frame passed in (for the first two the loaded input held by the
\* transformer) has the same columns and values after the call as before.
C11_NoStageMutatesInput ==
    [][(tpc \in StagePositions) => (ReceivedFrameAfter = ReceivedFrame)]_vars

----------------------------------------------------------------------------
(* The claims about the load script, under SpecLoad. *)

DimTables == {"dim_time", "dim_location", "dim_payment"}

TableRows(table) ==
    CASE table = "dim_time" -> dim_time
      [] table = "dim_location" -> dim_location
      [] table = "dim_payment" -> dim_payment

\* the positions of a run after its upsert of the table, inside its transaction
AfterUpsert(table) ==
    CASE table = "dim_time" -> {"location", "payment", "keys", "facts", "commit"}
      [] table = "dim_location" -> {"payment", "keys", "facts", "commit"}
      [] table = "dim_payment" -> {"keys", "facts", "commit"}

\* the natural keys of the candidates, as the column of the table holds them
NaturalKeys(table, frame) ==
    {DimRow(table, Candidates(table, frame)[i], 0, 0).key :
        i \in 1..Len(Candidates(table, frame))}

\* C3: a dimension table never holds two rows with one natural key; once a run
\* has upserted its candidates, the table holds for it exactly one row per
\* natural key of the candidates, however many runs have upserted the same
\* candidates before or beside it, and upserting them again would leave every
\* row as it is and add none.
C3_IdempotentUpsert ==
    \A table \in DimTables :
        /\ \A r1 \in TableRows(table) : \A r2 \in TableRows(table) :
              r1.key = r2.key => r1 = r2
        /\ \A p \in Procs :
              lpc[p] \in AfterUpsert(table) =>
                  /\ Cardinality(Visible(TableRows(table), p))
                        = Cardinality(NaturalKeys(table, ldf[p]))
                  /\ {r.key : r \in Visible(TableRows(table), p)}
                        = NaturalKeys(table, ldf[p])
                  /\ OnConflictDoNothing(table, TableRows(table),
                                         Candidates(table, ldf[p]),
                                         serial[table], p).rows
                        = TableRows(table)

\* a run has upserted its time candidates into a table in which another run
\* had already committed a row for each of them: it has inserted nothing
C3_Witness ==
    \E p \in Procs :
        /\ lpc[p] = "location"
        /\ ldf[p] # <<>>
        /\ dim_time # {}
        /\ \A r \in dim_time : r.tx = 0
        /\ serial["dim_time"] > Cardinality(dim_time) + 1

\* the row of a dimension that a foreign key of a fact points to
Referenced(rows, pk, tx) == {r \in rows : r.pk = pk /\ r.tx \in {0, tx}}

\* C4: each of the four foreign keys of a row of fact_trips is the surrogate
\* key of exactly one row of its dimension table, and the natural key of that
\* row is the natural key of the record the fact was built from.
C4_ReferentialCompleteness ==
    \A f \in fact_trips :
        /\ Cardinality(Referenced(dim_time, f.time_pk, f.tx)) = 1
        /\ \A r \in Referenced(dim_time, f.time_pk, f.tx) : r.key = f.origin[1]
        /\ Cardinality(Referenced(dim_location, f.pickup_loc_pk, f.tx)) = 1
        /\ \A r \in Referenced(dim_location, f.pickup_loc_pk, f.tx) :
              r.key = f.origin[2]
        /\ Cardinality(Referenced(dim_location, f.dropoff_loc_pk, f.tx)) = 1
        /\ \A r \in Referenced(dim_location, f.dropoff_loc_pk, f.tx) :
              r.key = f.origin[3]
        /\ Cardinality(Referenced(dim_payment, f.payment_pk, f.tx)) = 1
        /\ \A r \in Referenced(dim_payment, f.payment_pk, f.tx) :
              r.key = f.origin[4]

\* a committed fact whose pickup and dropoff keys were resolved to different
\* rows of a location dimension of several rows
C4_Witness ==
    \E f \in fact_trips :
        /\ f.tx = 0
        /\ Cardinality(dim_location) >= 2
        /\ f.pickup_loc_pk # f.dropoff_loc_pk

\* the count of an "unresolved" line among what a run printed, 0 without one
ReportedUnresolved(printed) ==
    IF \E i \in 1..Len(printed) : printed[i].what = "unresolved"
    THEN printed[CHOOSE i \in 1..Len(printed) : printed[i].what = "unresolved"].n
    ELSE 0

\* C5: after key resolution the rows of the fact frame and the unresolved
\* records the run reported add up to the records it submitted.
C5_UnresolvedReported ==
    \A p \in Procs :
        lpc[p] \in {"facts", "commit", "done"} =>
            Len(fact_data[p]) + ReportedUnresolved(out[p]) = Len(ldf[p])

StrictlyPositive(x) == x.k = "num" /\ x.v > 0

\* C8: every row of the fact frame, built from a record the classifier let
\* pass, has its six measures strictly positive, and passes the CHECK
\* constraints of fact_trips.
C8_FactInvariants ==
    \A p \in Procs :
        lpc[p] \in {"facts", "commit", "done"} =>
            \A i \in 1..Len(fact_data[p]) :
                /\ StrictlyPositive(fact_data[p][i].passenger_count)
                /\ StrictlyPositive(fact_data[p][i].trip_distance)
                /\ StrictlyPositive(fact_data[p][i].fare_amount)
                /\ StrictlyPositive(fact_data[p][i].total_amount)
                /\ fact_data[p][i].duration_min.k = "dur"
                /\ ~DurLe0(fact_data[p][i].duration_min)
                /\ StrictlyPositive(fact_data[p][i].avg_speed)
                /\ ChecksPass(FactRow(fact_data[p][i], 1, p))

CommittedRows(rows) == {r \in rows : r.tx = 0}

\* C9: a committed row of a dimension table or of fact_trips is still there,
\* unchanged, after every step of every run.
C9_AppendOnly ==
    [][/\ CommittedRows(dim_time) \subseteq CommittedRows(dim_time')
       /\ CommittedRows(dim_location) \subseteq CommittedRows(dim_location')
       /\ CommittedRows(dim_payment) \subseteq CommittedRows(dim_payment')
       /\ CommittedRows(fact_trips) \subseteq CommittedRows(fact_trips')]_vars

====
